---- MODULE Spec2Model ----
(***************************************************************************)
(* StockSight: the persistence store (src/database.py) and the cache       *)
(* fallback around the market-data provider (src/app.py, fetch_data).      *)
(*                                                                         *)
(* Tables are modelled as their rows.  stock_data and company_info are     *)
(* bags of rows (the primary key is a fresh uuid, so two rows may agree on *)
(* every other column); user_watchlist is the sequence of its rows in      *)
(* insertion order, the position standing for the row's id.                *)
(*                                                                         *)
(* Python None is <<>> and a present value x is <<x>>, so that optional    *)
(* values of one column stay comparable.                                   *)
(*                                                                         *)
(* Scope: the store is reachable.  A write fails only when the data        *)
(* handed to it is rejected (int() of a NaN volume, a name longer than the *)
(* column); the provider fails by raising or by leaving out                *)
(* 'regularMarketPrice'.                                                   *)
(***************************************************************************)
EXTENDS Integers, Sequences, FiniteSets, Bags, TLC

VARIABLES
    stock_data,      \* bag of StockData rows [symbol, date, close_price, volume]
    company_info,    \* bag of CompanyInfo rows [symbol, company_name, market_cap, last_updated]
    user_watchlist,  \* sequence of UserWatchlist rows [symbol, added_at, is_active]
    today,           \* datetime.now(), in days
    clock,           \* the wall clock in seconds: datetime.utcnow() of a new watchlist
                     \* row (strictly later at every add), the time of st.cache_data
    activated,       \* observer: per symbol, the instant of its last Inactive -> Active transition
    memo,            \* the entries of st.cache_data for fetch_data:
                     \* [symbol, period, interval, value, at]
    sessions,        \* per session, its add_to_watchlist call in progress:
                     \* [pc, symbol, existing]
    ret              \* the last call: its name, its arguments and what it returned

vars == <<stock_data, company_info, user_watchlist, today, clock, activated, memo,
          sessions, ret>>

----------------------------------------------------------------------------
(* Bounds *)

\* the last second of a run
MaxSeconds == 450

\* the browser sessions that run the page at the same time
Sessions == {1, 2}

\* a session that is not inside a call
Idle == [pc |-> "idle", symbol |-> "", existing |-> FALSE]

\* the first day of a run; later than the longest window (730 days)
Day0 == 1000
\* days the clock may advance
MaxDays == 1
\* reads of utcnow by add_to_watchlist, hence rows of user_watchlist
MaxClock == 4

\* bars in one provider response
MaxBars == 2
\* rows of stock_data
MaxRows == 2

Symbols == {"AAPL", "TSLA", "TCS.NS"}

\* the symbols whose data is fetched and cached
StoreSymbols == {"AAPL", "TSLA"}

\* the period selector of the sidebar; "5y" stands for the values the window
\* table does not list ("5y", "10y", "ytd", "max")
Periods == {"1mo", "3mo", "6mo", "1y", "2y", "5y"}

None == <<>>
Some(x) == <<x>>

----------------------------------------------------------------------------
(* Generic helpers *)

Range(sq) == {sq[i] : i \in DOMAIN sq}

RECURSIVE SetToSeqs(_)
\* all the orders in which the elements of a finite set can be listed
SetToSeqs(S) ==
    IF S = {} THEN {<<>>}
    ELSE UNION {{<<x>> \o t : t \in SetToSeqs(S \ {x})} : x \in S}

----------------------------------------------------------------------------
(* Watchlist: add_to_watchlist, remove_from_watchlist, get_watchlist *)

\* .filter(symbol == symbol, is_active == True).first() finds a row
HasActive(table, symbol) ==
    \E i \in DOMAIN table : table[i].symbol = symbol /\ table[i].is_active

\* a variant that flips an inactive row of the symbol back instead of inserting
add_to_watchlist_reactivate(table, symbol, now) ==
    IF HasActive(table, symbol)
    THEN [table |-> table, value |-> FALSE]
    ELSE IF \E i \in DOMAIN table : table[i].symbol = symbol
    THEN [table |-> [i \in DOMAIN table |->
                        IF table[i].symbol = symbol
                        THEN [table[i] EXCEPT !.is_active = TRUE, !.added_at = now]
                        ELSE table[i]],
          value |-> TRUE]
    ELSE [table |-> Append(table, [symbol |-> symbol, added_at |-> now, is_active |-> TRUE]),
          value |-> TRUE]

add_to_watchlist_always(table, symbol, now) ==
    [table |-> Append(table, [symbol |-> symbol, added_at |-> now, is_active |-> TRUE]),
     value |-> TRUE]

add_to_watchlist(table, symbol, now) ==
    IF ~HasActive(table, symbol)
    THEN [table |-> Append(table, [symbol |-> symbol, added_at |-> now, is_active |-> TRUE]),
          value |-> TRUE]
    ELSE [table |-> table, value |-> FALSE]

remove_from_watchlist_delete(table, symbol) ==
    IF HasActive(table, symbol)
    THEN [table |-> SelectSeq(table, LAMBDA r : r.symbol # symbol), value |-> TRUE]
    ELSE [table |-> table, value |-> FALSE]

\* update(UserWatchlist).where(symbol == symbol).values(is_active=False): every row
\* of the symbol, not only the active one
remove_from_watchlist(table, symbol) ==
    IF HasActive(table, symbol)
    THEN [table |-> [i \in DOMAIN table |->
                        IF table[i].symbol = symbol
                        THEN [table[i] EXCEPT !.is_active = FALSE]
                        ELSE table[i]],
          value |-> TRUE]
    ELSE [table |-> table, value |-> FALSE]

ActiveRows(table) == {i \in DOMAIN table : table[i].is_active}

get_watchlist_asc(table) ==
    {[k \in DOMAIN ord |-> table[ord[k]].symbol] :
        ord \in {o \in SetToSeqs(ActiveRows(table)) :
                    \A a, b \in DOMAIN o :
                        a < b => table[o[a]].added_at <= table[o[b]].added_at}}

\* the lists the query may return: the active rows ordered by added_at descending,
\* rows of equal added_at in either order
get_watchlist(table) ==
    {[k \in DOMAIN ord |-> table[ord[k]].symbol] :
        ord \in {o \in SetToSeqs(ActiveRows(table)) :
                    \A a, b \in DOMAIN o :
                        a < b => table[o[a]].added_at >= table[o[b]].added_at}}

----------------------------------------------------------------------------
(* Price bars: save_stock_data, get_cached_stock_data *)

\* timedelta(days=30) of save_stock_data
CutoffDays == 30

\* a float NaN in a column of the provider's frame
NaN == -1

Closes == {1, 2}

\* the ages, in days on Day0, of the days the provider has bars for: today, the
\* cutoff day and the day before it
BarOffsets == {0, 30, 31}

\* a bar of the provider's frame: prices and volume, or NaN in every column
BarsOn(now) ==
    {b \in [Date : {Day0 - o : o \in BarOffsets}, Close : Closes \cup {NaN},
            Volume : {100, NaN}] :
        /\ b.Date <= now
        /\ (b.Close = NaN) = (b.Volume = NaN)}

RECURSIVE FramesAfter(_, _, _)
\* the frames of at most n bars, each dated after day d, in strictly ascending dates
FramesAfter(bars, d, n) ==
    IF n = 0 THEN {<<>>}
    ELSE {<<>>} \cup
         UNION {{<<b>> \o f : f \in FramesAfter(bars, b.Date, n - 1)} :
                    b \in {x \in bars : x.Date > d}}

\* the frames ticker.history() may return: bars of strictly ascending dates
Hists(now) == FramesAfter(BarsOn(now), 0, MaxBars)

\* the rows of bag B that are in the set S, copy for copy
BagSelect(B, S) == [r \in S |-> B[r]]

BagSize(B) == BagCardinality(B)

DeleteWindow_keep(table, symbol, cutoff_date) == table

\* db.query(StockData).filter(symbol == symbol, date >= cutoff_date).delete()
DeleteWindow(table, symbol, cutoff_date) ==
    BagSelect(table, {r \in DOMAIN table : ~(r.symbol = symbol /\ r.date >= cutoff_date)})

\* StockData(symbol=..., date=..., close_price=float(..), volume=int(..)); int()
\* of a NaN raises
RECURSIVE InsertLoop(_, _, _, _)
InsertLoop(session, symbol, historical_data, i) ==
    IF i > Len(historical_data) THEN [session |-> session, raised |-> FALSE]
    ELSE IF historical_data[i].Volume = NaN THEN [session |-> session, raised |-> TRUE]
    ELSE InsertLoop(session (+) SetToBag({[symbol |-> symbol,
                                           date |-> historical_data[i].Date,
                                           close_price |-> historical_data[i].Close,
                                           volume |-> historical_data[i].Volume]}),
                    symbol, historical_data, i + 1)

Rollback_keep(before, session) == session

\* db.rollback(): the delete and the pending inserts are undone
Rollback(before, session) == before

\* [table: the table after the call, value: what the call returns, raised: whether
\*  an exception leaves the call, deleted: the rows the delete removed]
save_stock_data(table, symbol, historical_data, now) ==
    LET cutoff_date == now - CutoffDays
        Insert(afterDelete) ==
            LET Finish(loop) ==
                    [table |-> IF loop.raised THEN Rollback(table, loop.session)
                               ELSE loop.session,
                     value |-> ~loop.raised,
                     raised |-> FALSE,
                     deleted |-> BagSize(table) - BagSize(afterDelete)]
            IN Finish(InsertLoop(afterDelete, symbol, historical_data, 1))
    IN Insert(DeleteWindow(table, symbol, cutoff_date))

WindowDays_year(period) == 365

\* {'1mo': 30, '3mo': 90, '6mo': 180, '1y': 365, '2y': 730}.get(period, 365)
WindowDays(period) ==
    CASE period = "1mo" -> 30
      [] period = "3mo" -> 90
      [] period = "6mo" -> 180
      [] period = "1y" -> 365
      [] period = "2y" -> 730
      [] OTHER -> 365

\* the rows of a bag, one item per copy
BagItems(B) == {<<r, k>> : r \in DOMAIN B, k \in 1..BagSize(B)} \cap
               UNION {{<<r, k>> : k \in 1..B[r]} : r \in DOMAIN B}

\* .order_by(StockData.date).all(): rows of equal date in either order
OrderByDate(B) ==
    {[k \in DOMAIN o |-> o[k][1]] :
        o \in {q \in SetToSeqs(BagItems(B)) :
                  \A a, b \in DOMAIN q : a < b => q[a][1].date <= q[b][1].date}}

ToFrame(records) ==
    [k \in DOMAIN records |-> [Date |-> records[k].date,
                               Close |-> records[k].close_price,
                               Volume |-> records[k].volume]]

\* the values the call may return: None, or the frame of the rows in the window
get_cached_stock_data(table, symbol, period, now) ==
    LET start_date == now - WindowDays(period)
        matching == BagSelect(table, {r \in DOMAIN table : r.symbol = symbol /\ r.date >= start_date})
    IN IF matching = EmptyBag
       THEN {None}
       ELSE {Some(ToFrame(records)) : records \in OrderByDate(matching)}

----------------------------------------------------------------------------
(* Company snapshots: save_company_info, get_company_info_from_db *)

\* A dict of the provider (ticker.info) or of get_company_info_from_db: per key,
\* None when the key is absent and Some(v) when it maps to v.  The other keys
\* (sector, industry, trailingPE, ...) are carried like longName or marketCap.

\* a company name longer than the String(255) column
TooLong == "a name of more than 255 characters"

Infos ==
    {[regularMarketPrice |-> None, longName |-> None, marketCap |-> None,
      financialCurrency |-> None],
     [regularMarketPrice |-> None, longName |-> Some("Apple Inc."),
      marketCap |-> Some(Some(100)), financialCurrency |-> Some("USD")],
     [regularMarketPrice |-> Some(10), longName |-> None, marketCap |-> None,
      financialCurrency |-> None],
     [regularMarketPrice |-> Some(10), longName |-> Some("Apple Inc."),
      marketCap |-> Some(Some(100)), financialCurrency |-> Some("INR")],
     [regularMarketPrice |-> Some(10), longName |-> Some(TooLong),
      marketCap |-> Some(Some(100)), financialCurrency |-> Some("EUR")]}

\* dict.get(key, default)
Get(dict, key, default) == IF dict[key] = None THEN default ELSE dict[key][1]

\* truth value of a dict: it has a key
Truthy(dict) == \E k \in DOMAIN dict : dict[k] # None

CompanyRow(symbol, company_data, now) ==
    [symbol |-> symbol,
     company_name |-> Get(company_data, "longName", ""),
     market_cap |-> Get(company_data, "marketCap", None),
     last_updated |-> now]

\* the store rejects the row
Rejected(row) == row.company_name = TooLong

\* a variant that inserts without looking for an existing row
save_company_info_insert(table, symbol, company_data, now) ==
    LET row == CompanyRow(symbol, company_data, now)
    IN IF Rejected(row)
       THEN [table |-> table, value |-> FALSE, raised |-> FALSE]
       ELSE [table |-> table (+) SetToBag({row}), value |-> TRUE, raised |-> FALSE]

\* [table, value, raised] as for save_stock_data
save_company_info(table, symbol, company_data, now) ==
    LET existing == \E r \in BagToSet(table) : r.symbol = symbol
        row == CompanyRow(symbol, company_data, now)
        updated == LET kept == BagSelect(table, {r \in DOMAIN table : r.symbol # symbol})
                       n == BagSize(table) - BagSize(kept)
                   IN kept (+) [r \in {row} |-> n]
        session == IF existing THEN updated ELSE table (+) SetToBag({row})
    IN IF Rejected(row)
       THEN [table |-> table, value |-> FALSE, raised |-> FALSE]
       ELSE [table |-> session, value |-> TRUE, raised |-> FALSE]

\* the values the call may return: None, or the dict of a row of the symbol
get_company_info_from_db(table, symbol) ==
    LET rows == {r \in BagToSet(table) : r.symbol = symbol}
    IN IF rows = {}
       THEN {None}
       ELSE {Some([regularMarketPrice |-> None,
                   longName |-> Some(company.company_name),
                   marketCap |-> Some(company.market_cap),
                   financialCurrency |-> None]) : company \in rows}

----------------------------------------------------------------------------
(* fetch_data *)

\* get_currency_symbol(info) of the page, info being None or Some(dict):
\* info.get("financialCurrency", "") if info else "", then the table's .get(.., "$")
get_currency_symbol(info) ==
    LET currency == IF info # None /\ Truthy(info[1])
                    THEN Get(info[1], "financialCurrency", "")
                    ELSE ""
    IN CASE currency = "INR" -> "₹"
         [] currency = "USD" -> "$"
         [] currency = "EUR" -> "€"
         [] OTHER -> "$"

\* str(e) of the ValueError of fetch_data, word by word (the symbol stands for
\* the quoted symbol)
NotFoundError(symbol) ==
    <<"Symbol", symbol, "not", "found", "or", "no", "data", "available.">>

\* str(e) of the exceptions the provider raises, word by word
ProviderErrors == {<<"Max", "retries", "exceeded">>,
                   <<"Too", "Many", "Requests.">>}

\* the frames of a request: bars of today and of a day before the cutoff
LiveHists(now) ==
    {h \in Hists(now) : \A i \in DOMAIN h : h[i].Date # now - CutoffDays}

\* what yf.Ticker(symbol), ticker.history(...) and ticker.info do: raise, or
\* hand back a frame and a dict
Lives(now) ==
    [raised : {TRUE}, error : ProviderErrors, hist : {<<>>}, info : {None}]
    \cup [raised : {FALSE}, error : {<<>>}, hist : LiveHists(now), info : Infos]

\* 'regularMarketPrice' not in info
MissingPrice_never(info) == FALSE

MissingPrice(info) == info.regularMarketPrice = None

CacheSufficient_or(cached, cached_info) == cached # None \/ cached_info # None

CacheSufficient_never(cached, cached_info) == FALSE

CacheSufficient_always(cached, cached_info) == TRUE

\* cached is not None and cached_info is not None
CacheSufficient(cached, cached_info) == cached # None /\ cached_info # None

\* the except branch
Except(stock, company, cached, cached_info, e) ==
    [stock |-> stock, company |-> company, raised |-> FALSE,
     result |-> IF CacheSufficient(cached, cached_info)
                THEN [historical |-> cached, info |-> cached_info,
                      success |-> TRUE, error |-> None]
                ELSE [historical |-> None, info |-> None,
                      success |-> FALSE, error |-> Some(e)]]

\* a variant whose two writes are one unit: the snapshot is written only when
\* the bars were
Try_chained(stock, company, cached, cached_info, symbol, live, now) ==
    IF live.raised
    THEN Except(stock, company, cached, cached_info, live.error)
    ELSE IF MissingPrice(live.info)
    THEN Except(stock, company, cached, cached_info, NotFoundError(symbol))
    ELSE LET saved == IF live.hist # <<>>
                      THEN save_stock_data(stock, symbol, live.hist, now)
                      ELSE [table |-> stock, value |-> TRUE]
         IN [stock |-> saved.table,
             company |-> IF saved.value /\ Truthy(live.info)
                         THEN save_company_info(company, symbol, live.info, now).table
                         ELSE company,
             raised |-> FALSE,
             result |-> [historical |-> Some(live.hist), info |-> Some(live.info),
                         success |-> TRUE, error |-> None]]

\* the try block after the two cache reads
Try(stock, company, cached, cached_info, symbol, live, now) ==
    IF live.raised
    THEN Except(stock, company, cached, cached_info, live.error)
    ELSE IF MissingPrice(live.info)
    THEN Except(stock, company, cached, cached_info, NotFoundError(symbol))
    ELSE [stock |-> IF live.hist # <<>>
                    THEN save_stock_data(stock, symbol, live.hist, now).table
                    ELSE stock,
          company |-> IF Truthy(live.info)
                      THEN save_company_info(company, symbol, live.info, now).table
                      ELSE company,
          raised |-> FALSE,
          result |-> [historical |-> Some(live.hist), info |-> Some(live.info),
                      success |-> TRUE, error |-> None]]

\* the outcomes of the call: [stock, company: the tables after it, result: the
\* dict it returns, raised: whether an exception leaves it]
fetch_data(stock, company, symbol, period, live, now) ==
    {Try(stock, company, cached, cached_info, symbol, live, now) :
        cached \in get_cached_stock_data(stock, symbol, period, now),
        cached_info \in get_company_info_from_db(company, symbol)}

----------------------------------------------------------------------------
(* Initial state: empty tables *)

Init ==
    /\ stock_data = EmptyBag
    /\ company_info = EmptyBag
    /\ user_watchlist = <<>>
    /\ today = Day0
    /\ clock = 0
    /\ activated = [s \in Symbols |-> 0]
    /\ memo = {}
    /\ sessions = [k \in Sessions |-> Idle]
    /\ ret = [op |-> "init"]

----------------------------------------------------------------------------
(* Watchlist actions *)

AddToWatchlist(s) ==
    /\ clock < MaxClock
    /\ clock' = clock + 1
    /\ LET r == add_to_watchlist(user_watchlist, s, clock')
       IN /\ user_watchlist' = r.table
          /\ activated' = IF r.value THEN [activated EXCEPT ![s] = clock'] ELSE activated
          /\ ret' = [op |-> "add_to_watchlist", symbol |-> s, value |-> r.value]
    /\ UNCHANGED <<stock_data, company_info, today, memo, sessions>>

RemoveFromWatchlist(s) ==
    /\ LET r == remove_from_watchlist(user_watchlist, s)
       IN /\ user_watchlist' = r.table
          /\ ret' = [op |-> "remove_from_watchlist", symbol |-> s, value |-> r.value]
    /\ UNCHANGED <<stock_data, company_info, today, clock, activated, memo, sessions>>

GetWatchlist ==
    /\ \E l \in get_watchlist(user_watchlist) :
          ret' = [op |-> "get_watchlist", value |-> l]
    /\ UNCHANGED <<stock_data, company_info, user_watchlist, today, clock, activated, memo, sessions>>

NextWatch ==
    \/ \E s \in Symbols : AddToWatchlist(s)
    \/ \E s \in Symbols : RemoveFromWatchlist(s)
    \/ GetWatchlist

SpecWatch == Init /\ [][NextWatch]_vars

----------------------------------------------------------------------------
(* add_to_watchlist run by several sessions at once: every session has its own *)
(* database session, the query and the commit are separate statements          *)

\* a session enters add_to_watchlist(s)
BeginAdd(k, s) ==
    /\ sessions[k].pc = "idle"
    /\ sessions' = [sessions EXCEPT ![k] = [pc |-> "query", symbol |-> s,
                                            existing |-> FALSE]]
    /\ UNCHANGED <<stock_data, company_info, user_watchlist, today, clock, activated,
                   memo, ret>>

\* existing = db.query(UserWatchlist).filter(symbol, is_active).first(): the rows
\* committed so far
QueryAdd(k) ==
    /\ sessions[k].pc = "query"
    /\ sessions' = [sessions EXCEPT ![k].pc = "checked",
                                    ![k].existing = HasActive(user_watchlist,
                                                               sessions[k].symbol)]
    /\ UNCHANGED <<stock_data, company_info, user_watchlist, today, clock, activated,
                   memo, ret>>

\* if not existing: db.add(..); db.commit(); return True -- else return False
FinishAdd(k) ==
    /\ sessions[k].pc = "checked"
    /\ clock < MaxClock
    /\ clock' = clock + 1
    /\ LET s == sessions[k].symbol
           inserted == ~sessions[k].existing
       IN /\ user_watchlist' =
                IF inserted
                THEN Append(user_watchlist,
                            [symbol |-> s, added_at |-> clock', is_active |-> TRUE])
                ELSE user_watchlist
          /\ activated' = IF inserted THEN [activated EXCEPT ![s] = clock'] ELSE activated
          /\ ret' = [op |-> "add_to_watchlist", symbol |-> s, value |-> inserted]
    /\ sessions' = [sessions EXCEPT ![k] = Idle]
    /\ UNCHANGED <<stock_data, company_info, today, memo>>

NextRace ==
    \/ \E k \in Sessions : \E s \in StoreSymbols : BeginAdd(k, s)
    \/ \E k \in Sessions : QueryAdd(k)
    \/ \E k \in Sessions : FinishAdd(k)
    \/ GetWatchlist

SpecRace == Init /\ [][NextRace]_vars

----------------------------------------------------------------------------
(* Store actions *)

\* a day passes
Tick ==
    /\ today < Day0 + MaxDays
    /\ today' = today + 1
    /\ ret' = [op |-> "tick"]
    /\ UNCHANGED <<stock_data, company_info, user_watchlist, clock, activated, memo, sessions>>

SaveStockData(s, h) ==
    /\ \E r \in {save_stock_data(stock_data, s, h, today)} :
          /\ BagSize(r.table) <= MaxRows
          /\ stock_data' = r.table
          /\ ret' = [op |-> "save_stock_data", symbol |-> s, historical_data |-> h,
                     value |-> r.value, raised |-> r.raised, deleted |-> r.deleted]
    /\ UNCHANGED <<company_info, user_watchlist, today, clock, activated, memo, sessions>>

NextStore ==
    \/ \E s \in StoreSymbols : \E h \in Hists(today) : SaveStockData(s, h)

SpecStore == Init /\ [][NextStore]_vars

----------------------------------------------------------------------------
(* Reading the cache: get_cached_stock_data applied to the tables the saves can *)
(* leave behind                                                                  *)

\* the ages on Day0 of the rows of those tables: today and the first day of each
\* window, which is the day before the window once a day has passed
WindowOffsets == {0} \cup {WindowDays(p) : p \in Periods}

StoredRows ==
    [symbol : StoreSymbols, date : {Day0 - o : o \in WindowOffsets},
     close_price : Closes, volume : {100}]

RECURSIVE BagsUpTo(_, _)
\* the bags of at most n rows
BagsUpTo(rows, n) ==
    IF n = 0 THEN {EmptyBag}
    ELSE LET smaller == BagsUpTo(rows, n - 1)
         IN smaller \cup {b (+) SetToBag({r}) : b \in smaller, r \in rows}

InitCache ==
    /\ stock_data \in BagsUpTo(StoredRows, MaxRows)
    /\ company_info = EmptyBag
    /\ user_watchlist = <<>>
    /\ today = Day0
    /\ clock = 0
    /\ activated = [s \in Symbols |-> 0]
    /\ memo = {}
    /\ sessions = [k \in Sessions |-> Idle]
    /\ ret = [op |-> "init"]

GetCachedStockData(s, p) ==
    /\ \E v \in get_cached_stock_data(stock_data, s, p, today) :
          ret' = [op |-> "get_cached_stock_data", symbol |-> s, period |-> p, value |-> v]
    /\ UNCHANGED <<stock_data, company_info, user_watchlist, today, clock, activated, memo, sessions>>

NextCache ==
    \/ \E s \in StoreSymbols : \E p \in Periods : GetCachedStockData(s, p)
    \/ Tick

SpecCache == InitCache /\ [][NextCache]_vars

----------------------------------------------------------------------------
(* One request: fetch_data on the cache the earlier requests left behind *)

\* the periods requested: a window of 30 days and one of 365
FetchPeriods == {"1mo", "1y"}

CachedBars ==
    [symbol : StoreSymbols, date : {Day0 - o : o \in BarOffsets},
     close_price : Closes, volume : {100}]

\* the company_info tables: at most one row per symbol (the column is unique)
CachedCompanies ==
    LET rows(s) == {EmptyBag} \cup
                   {SetToBag({CompanyRow(s, i, Day0 - 1)}) :
                       i \in {j \in Infos : j.regularMarketPrice # None /\ j.longName # Some(TooLong)}}
    IN {a (+) b : a \in rows("AAPL"), b \in rows("TSLA")}

InitFetch ==
    /\ stock_data \in BagsUpTo(CachedBars, MaxRows)
    /\ company_info \in CachedCompanies
    /\ user_watchlist = <<>>
    /\ today = Day0
    /\ clock = 0
    /\ activated = [s \in Symbols |-> 0]
    /\ memo = {}
    /\ sessions = [k \in Sessions |-> Idle]
    /\ ret = [op |-> "init"]

FetchData(s, p, live) ==
    /\ \E r \in fetch_data(stock_data, company_info, s, p, live, today) :
          /\ stock_data' = r.stock
          /\ company_info' = r.company
          /\ ret' = [op |-> "fetch_data", symbol |-> s, period |-> p,
                     live |-> [kind |-> IF live.raised THEN "raise"
                                        ELSE IF live.info.regularMarketPrice = None
                                        THEN "noprice" ELSE "ok",
                               nbars |-> Len(live.hist),
                               hist |-> live.hist, info |-> live.info],
                     result |-> r.result, raised |-> r.raised]
    /\ UNCHANGED <<user_watchlist, today, clock, activated, memo, sessions>>

\* one call per request
NextFetch ==
    /\ ret.op = "init"
    /\ \E s \in StoreSymbols : \E p \in FetchPeriods : \E live \in Lives(today) :
          FetchData(s, p, live)

Spec == InitFetch /\ [][NextFetch]_vars

----------------------------------------------------------------------------
(* Requests one after the other, each finding its memo entry expired *)

\* the symbol requested again and again
ChainSymbols == {"AAPL"}

\* the provider's answers whose rows the store accepts
ChainLives(now) ==
    {l \in Lives(now) :
        /\ \A i \in DOMAIN l.hist : l.hist[i].Volume # NaN
        /\ l.raised \/ ~Rejected(CompanyRow("AAPL", l.info, now))}

NextChain ==
    \E s \in ChainSymbols : \E p \in FetchPeriods : \E live \in ChainLives(today) :
        /\ FetchData(s, p, live)
        /\ BagSize(stock_data') <= MaxRows

SpecChain == Init /\ [][NextChain]_vars

----------------------------------------------------------------------------
(* fetch_data behind @st.cache_data(ttl=300) *)

\* ttl=300, in seconds
TTL == 300

\* the seconds between two reruns of the page
Waits == {149, 150}

\* the arguments of the memoized calls
MemoSymbols == {"AAPL"}

MemoPeriods == {"1mo"}

Intervals == {"1d", "1wk"}

\* the provider's answers: an exception, or a bar of today with a full dict
MemoLives(now) ==
    {l \in Lives(now) :
        \/ l.raised
        \/ /\ l.hist = <<[Date |-> now, Close |-> 1, Volume |-> 100]>>
           /\ l.info.regularMarketPrice # None
           /\ l.info.longName = Some("Apple Inc.")}

\* an entry that never expires
Fresh_always(at, now) == TRUE

\* an entry written at `at` is served while less than ttl seconds have passed
Fresh(at, now) == now - at < TTL

\* the entries of the arguments, whatever their age
Entries(cache, s, p, i) ==
    {e \in cache : e.symbol = s /\ e.period = p /\ e.interval = i}

\* result = fetch_data(symbol, period, interval) through the decorator: a fresh
\* entry is returned without running the body; otherwise the body runs and its
\* result replaces the entry
Request(s, p, i) ==
    /\ IF \E e \in Entries(memo, s, p, i) : Fresh(e.at, clock)
       THEN /\ \E e \in Entries(memo, s, p, i) :
                  /\ Fresh(e.at, clock)
                  /\ ret' = [op |-> "fetch_data", symbol |-> s, period |-> p,
                             interval |-> i, hit |-> TRUE, live |-> [kind |-> "none"],
                             replaced |-> None, result |-> e.value]
            /\ UNCHANGED <<stock_data, company_info, memo>>
       ELSE \E live \in MemoLives(today) :
               \E r \in fetch_data(stock_data, company_info, s, p, live, today) :
                  /\ stock_data' = r.stock
                  /\ company_info' = r.company
                  /\ memo' = (memo \ Entries(memo, s, p, i)) \cup
                                {[symbol |-> s, period |-> p, interval |-> i,
                                  value |-> r.result, at |-> clock]}
                  /\ ret' = [op |-> "fetch_data", symbol |-> s, period |-> p,
                             interval |-> i, hit |-> FALSE,
                             live |-> [kind |-> IF live.raised THEN "raise" ELSE "ok",
                                       hist |-> live.hist, info |-> live.info],
                             replaced |-> IF Entries(memo, s, p, i) = {} THEN None
                                          ELSE Some(CHOOSE e \in Entries(memo, s, p, i) : TRUE),
                             result |-> r.result]
    /\ UNCHANGED <<user_watchlist, today, clock, activated, sessions>>

\* seconds pass between two reruns
Wait(d) ==
    /\ clock + d <= MaxSeconds
    /\ clock' = clock + d
    /\ ret' = [op |-> "wait", seconds |-> d]
    /\ UNCHANGED <<stock_data, company_info, user_watchlist, today, activated, memo,
                   sessions>>

NextMemo ==
    \/ \E s \in MemoSymbols : \E p \in MemoPeriods : \E i \in Intervals : Request(s, p, i)
    \/ \E d \in Waits : Wait(d)

SpecMemo == Init /\ [][NextMemo]_vars

----------------------------------------------------------------------------
(* Company snapshot actions *)

SaveCompanyInfo(s, company_data) ==
    /\ \E r \in {save_company_info(company_info, s, company_data, today)} :
          /\ company_info' = r.table
          /\ ret' = [op |-> "save_company_info", symbol |-> s,
                     company_data |-> company_data,
                     existing |-> \E row \in BagToSet(company_info) : row.symbol = s,
                     value |-> r.value, raised |-> r.raised]
    /\ UNCHANGED <<stock_data, user_watchlist, today, clock, activated, memo, sessions>>

NextInfo ==
    \/ \E s \in Symbols : \E company_data \in Infos : SaveCompanyInfo(s, company_data)
    \/ Tick

SpecInfo == Init /\ [][NextInfo]_vars

----------------------------------------------------------------------------
(* Claims about the watchlist, checked under SpecWatch *)

ActiveSymbols(table) == {table[i].symbol : i \in ActiveRows(table)}

RowsOfOthers(table, s) == SelectSeq(table, LAMBDA r : r.symbol # s)

\* C8: add_to_watchlist(S) returns false and leaves the table unchanged when S has
\* an active entry; otherwise it appends exactly one active entry for S and
\* returns true; the entries of other symbols are never changed.
C8_AddToWatchlist ==
    [][ret'.op = "add_to_watchlist" =>
        LET s == ret'.symbol IN
        /\ RowsOfOthers(user_watchlist', s) = RowsOfOthers(user_watchlist, s)
        /\ IF s \in ActiveSymbols(user_watchlist)
           THEN /\ ret'.value = FALSE
                /\ user_watchlist' = user_watchlist
           ELSE /\ ret'.value = TRUE
                /\ Len(user_watchlist') = Len(user_watchlist) + 1
                /\ SubSeq(user_watchlist', 1, Len(user_watchlist)) = user_watchlist
                /\ user_watchlist'[Len(user_watchlist')].symbol = s
                /\ user_watchlist'[Len(user_watchlist')].is_active = TRUE
    ]_vars

\* an add was refused for a symbol that is active while another symbol has an entry
C8_Witness ==
    /\ ret.op = "add_to_watchlist"
    /\ ret.value = FALSE
    /\ ret.symbol \in ActiveSymbols(user_watchlist)
    /\ \E i \in DOMAIN user_watchlist : user_watchlist[i].symbol # ret.symbol

\* C9: remove_from_watchlist(S) returns true exactly when S had an active entry;
\* afterwards S has no active entry and no list get_watchlist() may return holds
\* S; with no active entry it returns false and changes nothing; in both cases no
\* row is deleted and the rows of other symbols keep their is_active flags.
C9_RemoveFromWatchlist ==
    [][ret'.op = "remove_from_watchlist" =>
        LET s == ret'.symbol IN
        /\ ret'.value = (s \in ActiveSymbols(user_watchlist))
        /\ s \notin ActiveSymbols(user_watchlist')
        /\ \A l \in get_watchlist(user_watchlist') : s \notin Range(l)
        /\ ~ret'.value => user_watchlist' = user_watchlist
        /\ Len(user_watchlist') = Len(user_watchlist)
        /\ \A i \in DOMAIN user_watchlist :
              /\ user_watchlist'[i].symbol = user_watchlist[i].symbol
              /\ user_watchlist'[i].added_at = user_watchlist[i].added_at
              /\ user_watchlist[i].symbol # s =>
                    user_watchlist'[i].is_active = user_watchlist[i].is_active
    ]_vars

\* an active symbol was removed while another symbol stays active
C9_Witness ==
    /\ ret.op = "remove_from_watchlist"
    /\ ret.value = TRUE
    /\ \E i \in DOMAIN user_watchlist :
          user_watchlist[i].symbol = ret.symbol /\ ~user_watchlist[i].is_active
    /\ ActiveSymbols(user_watchlist) # {}

\* C10: get_watchlist() returns exactly the symbols that are Active, each once,
\* the symbol whose last transition into Active is the most recent first.
C10_GetWatchlist ==
    ret.op = "get_watchlist" =>
        /\ Range(ret.value) = ActiveSymbols(user_watchlist)
        /\ \A a, b \in DOMAIN ret.value : a # b => ret.value[a] # ret.value[b]
        /\ \A a, b \in DOMAIN ret.value :
              a < b => activated[ret.value[a]] > activated[ret.value[b]]

\* a list of two symbols whose first symbol was removed and added again
C10_Witness ==
    /\ ret.op = "get_watchlist"
    /\ Len(ret.value) = 2
    /\ \E i, j \in DOMAIN user_watchlist :
          /\ i < j
          /\ user_watchlist[i].symbol = ret.value[1]
          /\ ~user_watchlist[i].is_active
          /\ user_watchlist[j].symbol = ret.value[2]

RowsOf(table, s) == SelectSeq(table, LAMBDA r : r.symbol = s)

\* C15 (SpecWatch): in every state reached by add_to_watchlist and
\* remove_from_watchlist calls made one after the other, each symbol has at most
\* one watchlist row with is_active = TRUE.
C15_OneActiveRow ==
    \A i, j \in DOMAIN user_watchlist :
        (/\ user_watchlist[i].symbol = user_watchlist[j].symbol
         /\ user_watchlist[i].is_active
         /\ user_watchlist[j].is_active) => i = j

\* an add was refused for a symbol that has an inactive row and an active row
C15_Witness ==
    /\ ret.op = "add_to_watchlist"
    /\ ret.value = FALSE
    /\ \E i, j \in DOMAIN user_watchlist :
          /\ user_watchlist[i].symbol = ret.symbol
          /\ user_watchlist[j].symbol = ret.symbol
          /\ ~user_watchlist[i].is_active
          /\ user_watchlist[j].is_active

\* C16 as stated: an add of a symbol that was added and removed before makes the
\* symbol Active without inserting a row, so the rows of the symbol do not grow.
C16_ReAddKeepsRows ==
    [][(/\ ret'.op = "add_to_watchlist"
        /\ RowsOf(user_watchlist, ret'.symbol) # <<>>
        /\ ret'.symbol \notin ActiveSymbols(user_watchlist)) =>
        /\ ret'.symbol \in ActiveSymbols(user_watchlist')
        /\ Len(RowsOf(user_watchlist', ret'.symbol)) =
              Len(RowsOf(user_watchlist, ret'.symbol))
    ]_vars

\* C16 (SpecWatch), amended: an add of a symbol that was added and removed before
\* makes the symbol Active by inserting one new active row; the earlier rows of
\* the symbol stay as they are (inactive), so the rows of the symbol grow by one
\* with every add/remove cycle.
C16_ReAddInsertsRow ==
    [][(/\ ret'.op = "add_to_watchlist"
        /\ RowsOf(user_watchlist, ret'.symbol) # <<>>
        /\ ret'.symbol \notin ActiveSymbols(user_watchlist)) =>
        LET before == RowsOf(user_watchlist, ret'.symbol)
            after == RowsOf(user_watchlist', ret'.symbol)
        IN /\ ret'.value = TRUE
           /\ ret'.symbol \in ActiveSymbols(user_watchlist')
           /\ Len(after) = Len(before) + 1
           /\ SubSeq(after, 1, Len(before)) = before
           /\ \A i \in DOMAIN before : ~after[i].is_active
           /\ after[Len(after)].is_active
    ]_vars

\* a symbol went through two add/remove cycles and was added a third time
C16_Witness ==
    /\ ret.op = "add_to_watchlist"
    /\ ret.value = TRUE
    /\ Len(RowsOf(user_watchlist, ret.symbol)) = 3
    /\ ret.symbol \in ActiveSymbols(user_watchlist)

\* C20 (SpecRace) as stated: when add_to_watchlist calls of different sessions
\* interleave, then once the calls have returned every symbol has at most one
\* active row and no list get_watchlist() may return holds a symbol twice.
C20_OneActiveRowAfterRace ==
    (\A k \in Sessions : sessions[k].pc = "idle") =>
        /\ \A i, j \in ActiveRows(user_watchlist) :
              user_watchlist[i].symbol = user_watchlist[j].symbol => i = j
        /\ \A l \in get_watchlist(user_watchlist) :
              \A a, b \in DOMAIN l : l[a] = l[b] => a = b

----------------------------------------------------------------------------
(* Claims about the price bars *)

RowsOfFrame(symbol, frame) ==
    {[symbol |-> symbol, date |-> frame[i].Date, close_price |-> frame[i].Close,
      volume |-> frame[i].Volume] : i \in DOMAIN frame}

SymbolRows(table, symbol) == BagSelect(table, {r \in DOMAIN table : r.symbol = symbol})

OtherRows(table, symbol) == BagSelect(table, {r \in DOMAIN table : r.symbol # symbol})

RowsSince(table, symbol, day) ==
    BagSelect(table, {r \in DOMAIN table : r.symbol = symbol /\ r.date >= day})

\* C5 (SpecStore): after a save_stock_data(S, bars) that succeeds, the stored bars
\* of S dated on or after now - 30 days are exactly the bars of that call dated
\* on or after the cutoff, whatever was stored before, and the bars of other
\* symbols are untouched.
C5_RefreshOverwrites ==
    [][(ret'.op = "save_stock_data" /\ ret'.value) =>
        LET s == ret'.symbol
            cutoff == today - 30
            fresh == {r \in RowsOfFrame(s, ret'.historical_data) : r.date >= cutoff}
        IN /\ RowsSince(stock_data', s, cutoff) = SetToBag(fresh)
           /\ OtherRows(stock_data', s) = OtherRows(stock_data, s)
    ]_vars

\* a successful save that replaced stored bars of the window by bars of its own
C5_Witness ==
    /\ ret.op = "save_stock_data"
    /\ ret.value
    /\ ret.deleted > 0
    /\ \E i \in DOMAIN ret.historical_data : ret.historical_data[i].Date >= today - 30

\* C6 (SpecStore): when a bar of the batch cannot be inserted, save_stock_data
\* returns false without raising and the stored bars are what they were before
\* the call.
C6_SaveAllOrNothing ==
    [][(/\ ret'.op = "save_stock_data"
        /\ \E i \in DOMAIN ret'.historical_data : ret'.historical_data[i].Volume = NaN) =>
        /\ ret'.value = FALSE
        /\ ret'.raised = FALSE
        /\ stock_data' = stock_data
    ]_vars

\* a failed save whose delete had removed rows and whose first bar was insertable
C6_Witness ==
    /\ ret.op = "save_stock_data"
    /\ ~ret.value
    /\ ret.deleted > 0
    /\ Len(ret.historical_data) >= 2
    /\ ret.historical_data[1].Volume # NaN
    /\ BagSize(SymbolRows(stock_data, ret.symbol)) = ret.deleted

\* the window of the persistence contract
C7_Window(period) ==
    IF period = "1mo" THEN 30
    ELSE IF period = "3mo" THEN 90
    ELSE IF period = "6mo" THEN 180
    ELSE IF period = "2y" THEN 730
    ELSE 365

\* C7 (SpecCache): get_cached_stock_data(S, period) returns None when no stored
\* bar of S is dated on or after now - window(period), and otherwise exactly
\* those bars, copy for copy, in ascending date order; with "1mo" no returned bar
\* is older than 30 days.
C7_CachedWindow ==
    ret.op = "get_cached_stock_data" =>
        LET inWindow == RowsSince(stock_data, ret.symbol, today - C7_Window(ret.period))
        IN IF inWindow = EmptyBag
           THEN ret.value = None
           ELSE /\ ret.value # None
                /\ LET frame == ret.value[1]
                   IN /\ \A a, b \in DOMAIN frame : a < b => frame[a].Date <= frame[b].Date
                      /\ RowsOfFrame(ret.symbol, frame) = BagToSet(inWindow)
                      /\ \A r \in BagToSet(inWindow) :
                            Cardinality({i \in DOMAIN frame :
                                RowsOfFrame(ret.symbol, <<frame[i]>>) = {r}}) = inWindow[r]
                      /\ ret.period = "1mo" =>
                            \A i \in DOMAIN frame : frame[i].Date >= today - 30

\* a "3mo" read that returned a bar of the symbol while a stored bar of the symbol
\* is dated the day before the window
C7_Witness ==
    /\ ret.op = "get_cached_stock_data"
    /\ ret.period = "3mo"
    /\ ret.value # None
    /\ \E r \in BagToSet(stock_data) : r.symbol = ret.symbol /\ r.date = today - 91

\* C14 (SpecStore) as stated: after any sequence of save_stock_data calls the
\* table holds at most one row per (symbol, date).
C14_UniqueBars ==
    \A r \in DOMAIN stock_data :
        /\ stock_data[r] = 1
        /\ \A q \in DOMAIN stock_data :
              (q.symbol = r.symbol /\ q.date = r.date) => q = r

----------------------------------------------------------------------------
(* Claims about fetch_data, checked under Spec *)

\* frame lists the rows of the bag, copy for copy, in ascending date order
IsFrameOf(frame, bag, symbol) ==
    /\ \A a, b \in DOMAIN frame : a < b => frame[a].Date <= frame[b].Date
    /\ RowsOfFrame(symbol, frame) = BagToSet(bag)
    /\ \A r \in BagToSet(bag) :
          Cardinality({i \in DOMAIN frame : RowsOfFrame(symbol, <<frame[i]>>) = {r}}) = bag[r]

CompanyRowsOf(table, symbol) ==
    BagSelect(table, {r \in DOMAIN table : r.symbol = symbol})

CompanyRowsOfOthers(table, symbol) ==
    BagSelect(table, {r \in DOMAIN table : r.symbol # symbol})

\* the cached snapshot of a row
SnapshotOf(row) ==
    [regularMarketPrice |-> None,
     longName |-> Some(row.company_name),
     marketCap |-> Some(row.market_cap),
     financialCurrency |-> None]

Snapshots(table, symbol) == {r \in BagToSet(table) : r.symbol = symbol}

\* the cached bars of a request
BarsInWindow(table, symbol, period, now) ==
    RowsSince(table, symbol, now - C7_Window(period))

LiveFailed(call) == call.live.kind \in {"raise", "noprice"}

Contains(text, w1, w2) ==
    \E i \in DOMAIN text : i + 1 \in DOMAIN text /\ text[i] = w1 /\ text[i + 1] = w2

\* C1: when the store holds bars of S in the period's window and a snapshot of S
\* and the live fetch fails (the provider raises, or the live-price field is
\* missing), fetch_data returns success=true with exactly those bars and that
\* snapshot, and both tables are the same after the call as before it.
C1_FallbackServesCache ==
    [][(/\ ret'.op = "fetch_data"
        /\ LiveFailed(ret')
        /\ BarsInWindow(stock_data, ret'.symbol, ret'.period, today) # EmptyBag
        /\ Snapshots(company_info, ret'.symbol) # {}) =>
        /\ ret'.result.success = TRUE
        /\ ret'.result.error = None
        /\ ret'.result.historical # None
        /\ IsFrameOf(ret'.result.historical[1],
                     BarsInWindow(stock_data, ret'.symbol, ret'.period, today), ret'.symbol)
        /\ ret'.result.info # None
        /\ \E row \in Snapshots(company_info, ret'.symbol) :
              ret'.result.info[1] = SnapshotOf(row)
        /\ stock_data' = stock_data
        /\ company_info' = company_info
    ]_vars

\* the provider returned bars but no live price, and the two cached bars of the
\* symbol were served
C1_Witness ==
    /\ ret.op = "fetch_data"
    /\ ret.live.kind = "noprice"
    /\ ret.live.nbars > 0
    /\ ret.result.success
    /\ Len(ret.result.historical[1]) = 2
    /\ Snapshots(company_info, ret.symbol) # {}

\* C2: when the store holds neither bars of S in the period's window nor a
\* snapshot of S and the live fetch fails, fetch_data returns success=false with
\* bars = None, snapshot = None and a non-empty error message, and raises nothing.
C2_NoCacheFails ==
    [][(/\ ret'.op = "fetch_data"
        /\ LiveFailed(ret')
        /\ BarsInWindow(stock_data, ret'.symbol, ret'.period, today) = EmptyBag
        /\ Snapshots(company_info, ret'.symbol) = {}) =>
        /\ ret'.result.success = FALSE
        /\ ret'.result.historical = None
        /\ ret'.result.info = None
        /\ ret'.result.error # None
        /\ ret'.result.error[1] # <<>>
        /\ ret'.raised = FALSE
    ]_vars

\* the provider raised for a symbol without any row while the other symbol is cached
C2_Witness ==
    /\ ret.op = "fetch_data"
    /\ ret.live.kind = "raise"
    /\ ~ret.result.success
    /\ SymbolRows(stock_data, ret.symbol) = EmptyBag
    /\ Snapshots(company_info, ret.symbol) = {}
    /\ OtherRows(stock_data, ret.symbol) # EmptyBag
    /\ company_info # EmptyBag

\* C3: when exactly one of the cached bars and the cached snapshot of S exists
\* and the live fetch fails, fetch_data returns success=false with bars = None
\* and snapshot = None.
C3_PartialCacheFails ==
    [][(/\ ret'.op = "fetch_data"
        /\ LiveFailed(ret')
        /\ (BarsInWindow(stock_data, ret'.symbol, ret'.period, today) = EmptyBag)
              # (Snapshots(company_info, ret'.symbol) = {})) =>
        /\ ret'.result.success = FALSE
        /\ ret'.result.historical = None
        /\ ret'.result.info = None
    ]_vars

\* a failed fetch of a symbol that has cached bars in the window but no snapshot
C3_Witness ==
    /\ ret.op = "fetch_data"
    /\ LiveFailed(ret)
    /\ ~ret.result.success
    /\ BarsInWindow(stock_data, ret.symbol, ret.period, today) # EmptyBag
    /\ Snapshots(company_info, ret.symbol) = {}

\* C4: when the provider's dict lacks 'regularMarketPrice', nothing is written:
\* both tables are unchanged even if the provider returned bars; and unless
\* both the bars and the snapshot of the symbol are cached, the result is
\* success=false with an error message that contains "not found".
C4_MissingPriceIsNotFound ==
    [][(ret'.op = "fetch_data" /\ ret'.live.kind = "noprice") =>
        /\ stock_data' = stock_data
        /\ company_info' = company_info
        /\ ( \/ BarsInWindow(stock_data, ret'.symbol, ret'.period, today) = EmptyBag
             \/ Snapshots(company_info, ret'.symbol) = {} ) =>
              /\ ret'.result.success = FALSE
              /\ ret'.result.error # None
              /\ Contains(ret'.result.error[1], "not", "found")
    ]_vars

\* the provider returned bars and a dict without the live price for a symbol
\* that has no cache
C4_Witness ==
    /\ ret.op = "fetch_data"
    /\ ret.live.kind = "noprice"
    /\ ret.live.nbars > 0
    /\ ~ret.result.success
    /\ SymbolRows(stock_data, ret.symbol) = EmptyBag
    /\ Snapshots(company_info, ret.symbol) = {}

\* a bar of the frame that save_stock_data cannot convert
BarsFail(hist) == \E i \in DOMAIN hist : hist[i].Volume = NaN

\* a dict whose row the store rejects
InfoFails(info) == info.longName = Some(TooLong)

\* C13 (Spec): when the provider answers with a live price and a write fails,
\* fetch_data still returns success=true with the provider's frame and dict and
\* raises nothing; a failed save_stock_data leaves stock_data as it was and a
\* failed save_company_info leaves company_info as it was; and the other write
\* is still made: after failed bars the snapshot row of the symbol carries the
\* dict's values, after a failed snapshot the bars of the frame dated on or after
\* the cutoff are the stored ones.
C13_FailedWriteKeepsOutcome ==
    [][(/\ ret'.op = "fetch_data"
        /\ ret'.live.kind = "ok"
        /\ (BarsFail(ret'.live.hist) \/ InfoFails(ret'.live.info))) =>
        LET s == ret'.symbol
            hist == ret'.live.hist
            info == ret'.live.info
        IN /\ ret'.result = [historical |-> Some(hist), info |-> Some(info),
                             success |-> TRUE, error |-> None]
           /\ ret'.raised = FALSE
           /\ BarsFail(hist) => stock_data' = stock_data
           /\ InfoFails(info) => company_info' = company_info
           /\ (BarsFail(hist) /\ ~InfoFails(info)) =>
                 CompanyRowsOf(company_info', s) = SetToBag({CompanyRow(s, info, today)})
           /\ (InfoFails(info) /\ ~BarsFail(hist) /\ hist # <<>>) =>
                 RowsSince(stock_data', s, today - 30) =
                    SetToBag({r \in RowsOfFrame(s, hist) : r.date >= today - 30})
    ]_vars

\* the bars were rejected after rows of the symbol had been deleted in the
\* session, and the snapshot of the symbol was still replaced
C13_Witness ==
    /\ ret.op = "fetch_data"
    /\ ret.live.kind = "ok"
    /\ BarsFail(ret.live.hist)
    /\ ~InfoFails(ret.live.info)
    /\ ret.result.success
    /\ RowsSince(stock_data, ret.symbol, today - 30) # EmptyBag
    /\ \E r \in BagToSet(company_info) : r.symbol = ret.symbol /\ r.last_updated = today

\* C18 (Spec) as stated: whenever fetch_data returns success=true, from the live
\* path or from the fallback, the returned frame holds at least one bar and the
\* snapshot is present.
C18_SuccessHasBars ==
    (ret.op = "fetch_data" /\ ret.result.success) =>
        /\ ret.result.historical # None
        /\ Len(ret.result.historical[1]) >= 1
        /\ ret.result.info # None

----------------------------------------------------------------------------
(* Claims about requests made one after the other, checked under SpecChain *)

\* the rows of the bars of a frame that a read with the period returns
FrameInWindow(symbol, frame, period, now) ==
    {r \in RowsOfFrame(symbol, frame) : r.date >= now - C7_Window(period)}

\* C17 (SpecChain) as stated: when a fetch of S with period P succeeded live with
\* both writes made, and the next fetch of S with P fails, the failing fetch
\* returns success=true, its bars are exactly the bars of that last live fetch
\* that lie in the window of P, each date once, and its snapshot has the name
\* and the market cap of that last live fetch.
C17_FallbackIsLastFetch ==
    [][(/\ ret.op = "fetch_data"
        /\ ret.live.kind = "ok"
        /\ FrameInWindow(ret.symbol, ret.live.hist, ret.period, today) # {}
        /\ ret'.op = "fetch_data"
        /\ ret'.symbol = ret.symbol
        /\ ret'.period = ret.period
        /\ LiveFailed(ret')) =>
        /\ ret'.result.success
        /\ ret'.result.historical # None
        /\ RowsOfFrame(ret'.symbol, ret'.result.historical[1]) =
              FrameInWindow(ret.symbol, ret.live.hist, ret.period, today)
        /\ \A i, j \in DOMAIN ret'.result.historical[1] :
              ret'.result.historical[1][i].Date = ret'.result.historical[1][j].Date => i = j
        /\ ret'.result.info # None
        /\ ret'.result.info[1].longName = Some(Get(ret.live.info, "longName", ""))
        /\ ret'.result.info[1].marketCap = Some(Get(ret.live.info, "marketCap", None))
    ]_vars

\* C19 (SpecChain) as stated: the currency symbol of a result is the one of the
\* table (INR, USD, EUR, otherwise "$") for the currency code of the provider's
\* dict, and when a live fetch of S that wrote its snapshot is followed by a
\* failing fetch of S served from the cache, both results give the same symbol.
C19_SameCurrencySymbol ==
    [][(/\ ret.op = "fetch_data"
        /\ ret.live.kind = "ok"
        /\ ret'.op = "fetch_data"
        /\ ret'.symbol = ret.symbol
        /\ LiveFailed(ret')
        /\ ret'.result.success) =>
        /\ get_currency_symbol(ret.result.info) =
              (CASE ret.live.info.financialCurrency = Some("INR") -> "₹"
                 [] ret.live.info.financialCurrency = Some("EUR") -> "€"
                 [] OTHER -> "$")
        /\ get_currency_symbol(ret'.result.info) = get_currency_symbol(ret.result.info)
    ]_vars

----------------------------------------------------------------------------
(* Claims about the memoized fetch_data, checked under SpecMemo *)

\* C11 (SpecMemo): a call of fetch_data(symbol, period, interval) made less than
\* 300 seconds after the result for the same three arguments was memoized
\* returns that result, success or failure, without running the body (the
\* tables and the memo stay as they are); a call with no entry, or with an entry
\* that is 300 seconds old or older, runs the body again, so that it succeeds
\* with the provider's frame and dict when the provider answers, and memoizes
\* the new result.
C11_MemoUntilExpiry ==
    [][ret'.op = "fetch_data" =>
        LET served == {e \in memo : /\ e.symbol = ret'.symbol
                                    /\ e.period = ret'.period
                                    /\ e.interval = ret'.interval
                                    /\ clock - e.at < 300}
        IN IF served # {}
           THEN /\ ret'.hit
                /\ \A e \in served : ret'.result = e.value
                /\ stock_data' = stock_data
                /\ company_info' = company_info
                /\ memo' = memo
           ELSE /\ ~ret'.hit
                /\ ret'.live.kind = "ok" =>
                      ret'.result = [historical |-> Some(ret'.live.hist),
                                     info |-> Some(ret'.live.info),
                                     success |-> TRUE, error |-> None]
                /\ {e \in memo' : /\ e.symbol = ret'.symbol
                                   /\ e.period = ret'.period
                                   /\ e.interval = ret'.interval}
                      = {[symbol |-> ret'.symbol, period |-> ret'.period,
                          interval |-> ret'.interval, value |-> ret'.result,
                          at |-> clock]}
    ]_vars

\* a failure memoized 300 seconds ago was replaced by a success while the other
\* interval's entry, 150 seconds old, is still kept
C11_Witness ==
    /\ ret.op = "fetch_data"
    /\ ~ret.hit
    /\ ret.replaced # None
    /\ ~ret.replaced[1].value.success
    /\ clock - ret.replaced[1].at = 300
    /\ ret.result.success
    /\ \E e \in memo : e.interval # ret.interval /\ clock - e.at = 150

----------------------------------------------------------------------------
(* Claims about the company snapshots, checked under SpecInfo *)

\* C12 (SpecInfo): after every save_company_info call, successful or failed, no
\* symbol has more than one row; a successful call for a symbol that has a row
\* leaves the row count as it is and the row carries the values of the call, a
\* successful call for a symbol without a row adds exactly one row, a failed call
\* changes nothing, and the rows of other symbols are unchanged.
C12_OneSnapshotPerSymbol ==
    [][ret'.op = "save_company_info" =>
        LET s == ret'.symbol
            row == CompanyRow(s, ret'.company_data, today)
        IN /\ \A t \in Symbols : BagSize(CompanyRowsOf(company_info', t)) <= 1
           /\ CompanyRowsOfOthers(company_info', s) = CompanyRowsOfOthers(company_info, s)
           /\ ~ret'.raised
           /\ IF ~ret'.value
              THEN company_info' = company_info
              ELSE /\ CompanyRowsOf(company_info', s) = SetToBag({row})
                   /\ BagSize(company_info') =
                         BagSize(company_info) + (IF ret'.existing THEN 0 ELSE 1)
    ]_vars

\* a row written on an earlier day was updated while another symbol has a row
C12_Witness ==
    /\ ret.op = "save_company_info"
    /\ ret.existing
    /\ ret.value
    /\ \E r \in BagToSet(company_info) :
          r.symbol = ret.symbol /\ r.last_updated = today /\ today > Day0
    /\ \E r \in BagToSet(company_info) :
          r.symbol # ret.symbol /\ r.last_updated < today

====
